---- MODULE Spec2Model ----
(***************************************************************************)
(* Model of the gossipsub message validator (src/src/validator.rs) and of  *)
(* the wire codec it decodes with (src/src/codec.rs).                       *)
(*                                                                         *)
(* Representation:                                                         *)
(*  - scores and score deltas are kept in half points (HalfPoints = 2      *)
(*    units per point), so that the 0.5-per-offence scaling stays in the   *)
(*    integers; all f64 values the code produces here are multiples of     *)
(*    0.5 and exact;                                                       *)
(*  - time is in milliseconds and tokens are kept in units of              *)
(*    1/TokenUnit token, so that one millisecond refills one unit          *)
(*    (TOKEN_REFILL_RATE = 50 tokens per second);                          *)
(*  - a byte string is a sequence of numbers 0..255, encoded and decoded   *)
(*    with bincode's fixed-width little-endian layout;                     *)
(*  - SHA-256 is taken to be collision free: a digest is represented by    *)
(*    the pair (domain tag, preimage).                                     *)
(***************************************************************************)
EXTENDS Integers, Sequences, FiniteSets, TLC

VARIABLES
    peers,          \* Validator.peers: PeerId -> PeerState
    dedupe_cache,   \* Validator.dedupe_cache: the FIFO queue of digests
    dedupe_set,     \* Validator.dedupe_set
    offences,       \* Validator.offences: PeerId -> offence count
    app_scores,     \* Validator.app_scores
    now,            \* the clock read by Instant::now()
    last,           \* the most recent validate call: arguments and outcome
    hist,           \* history of the calls so far (see NoHistory)
    calls,          \* number of validate calls made
    node            \* run_node: its locals and what it has told the swarm

vars == <<peers, dedupe_cache, dedupe_set, offences, app_scores, now, last, hist, calls,
          node>>

(***************************************************************************)
(* Bounds of the model.  The capacities of the code (1000 peers, 10000     *)
(* digests, 100 tokens, 16384 bytes) are scaled down so that eviction,     *)
(* rate limiting and the size gate happen within a few calls.              *)
(***************************************************************************)
NumPeers == 3
MaxSeq == 2
MaxCalls == 3
MaxEscCalls == 7
MaxBadCalls == 5
MaxTicks == 1
MaxJitter == 4
MaxConsumes == 4
MaxAmount == 3
MaxRateCalls == 5
MaxEvents == 4
MaxCmds == 2
MAX_PEERS == 2
MAX_DEDUPE_SIZE == 2
TOKEN_BUCKET_CAPACITY == 2
max_message_bytes == 21

(* Program constants. *)
TOKEN_REFILL_RATE == 50
QUARANTINE_THRESHOLD == -90
OFFENCE_HARD_CAP == 4
BASE_OVERSIZE == -60
BASE_RATE_LIMITED == -5
BASE_DECODE_ERROR == -30
BASE_EMPTY_PAYLOAD == -30
BASE_MALICIOUS == -80
HalfPoints == 2
TokenUnit == 1000 \div TOKEN_REFILL_RATE
TickMs == TokenUnit

PeerIds == 1..NumPeers
None == -1
Authors == PeerIds \cup {None}

(***************************************************************************)
(* Wire codec: bincode with fixed-width integers.  An enum is a u32        *)
(* variant index, a u64 is 8 bytes, a Vec<u8> is a u64 length followed by  *)
(* the bytes; all little endian.  bincode::deserialize accepts trailing    *)
(* bytes.                                                                  *)
(***************************************************************************)
RECURSIVE ToLE(_, _)
ToLE(n, w) == IF w = 0 THEN <<>> ELSE <<n % 256>> \o ToLE(n \div 256, w - 1)

RECURSIVE FromLE(_)
FromLE(bs) == IF bs = <<>> THEN 0 ELSE Head(bs) + 256 * FromLE(Tail(bs))

GoodTag == 0
BadTag == 1

Good(seq, payload) == [variant |-> "Good", seq |-> seq, payload |-> payload]
Bad == [variant |-> "Bad", seq |-> 0, payload |-> <<>>]
DecodeErr == [variant |-> "Err", seq |-> 0, payload |-> <<>>]

encode(msg) ==
    IF msg.variant = "Good"
    THEN ToLE(GoodTag, 4) \o ToLE(msg.seq, 8) \o ToLE(Len(msg.payload), 8) \o msg.payload
    ELSE ToLE(BadTag, 4)

decode(bytes) ==
    IF Len(bytes) < 4 THEN DecodeErr
    ELSE LET tag == FromLE(SubSeq(bytes, 1, 4)) IN
         IF tag = GoodTag
         THEN IF Len(bytes) < 20 THEN DecodeErr
              ELSE LET seq == FromLE(SubSeq(bytes, 5, 12))
                       n == FromLE(SubSeq(bytes, 13, 20))
                   IN IF Len(bytes) < 20 + n THEN DecodeErr
                      ELSE Good(seq, SubSeq(bytes, 21, 20 + n))
         ELSE IF tag = BadTag THEN Bad
         ELSE DecodeErr

Zeros(n) == [i \in 1..n |-> 0]

(* The byte strings the environment delivers. *)
GoodMsgs == {encode(Good(q, <<7>>)) : q \in 0..MaxSeq}
EmptyMsgs == {encode(Good(q, <<>>)) : q \in {0, MaxSeq}}
BadMsg == encode(Bad)
JunkMsg == Zeros(10)
OversizeMsg == encode(Good(1, Zeros(max_message_bytes)))
Msgs == GoodMsgs \cup EmptyMsgs \cup {BadMsg, JunkMsg, OversizeMsg}

Sha256Key(bytes) == [tag |-> "gossipsub-v1.1:", data |-> bytes]

(***************************************************************************)
(* Token bucket.                                                           *)
(***************************************************************************)
(* a bucket that starts empty *)
TokenBucket_new_empty(t) ==
    [capacity |-> TOKEN_BUCKET_CAPACITY, tokens |-> 0, last |-> t]

TokenBucket_new(t) ==
    [capacity |-> TOKEN_BUCKET_CAPACITY,
     tokens |-> TOKEN_BUCKET_CAPACITY * TokenUnit,
     last |-> t]

(* try_consume refilling by whole seconds only *)
try_consume_whole_seconds(b, amount, t) ==
    LET elapsed == (t - b.last) \div 1000
        refilled == b.tokens + elapsed * TOKEN_REFILL_RATE * TokenUnit
        clamped == IF refilled > b.capacity * TokenUnit THEN b.capacity * TokenUnit ELSE refilled
    IN IF clamped >= amount * TokenUnit
       THEN [bucket |-> [b EXCEPT !.tokens = clamped - amount * TokenUnit, !.last = t], ok |-> TRUE]
       ELSE [bucket |-> [b EXCEPT !.tokens = clamped, !.last = t], ok |-> FALSE]

(* try_consume without the clamp to capacity *)
try_consume_unclamped(b, amount, t) ==
    LET elapsed == t - b.last
        refilled == b.tokens + (elapsed * TOKEN_REFILL_RATE * TokenUnit) \div 1000
    IN IF refilled >= amount * TokenUnit
       THEN [bucket |-> [b EXCEPT !.tokens = refilled - amount * TokenUnit, !.last = t], ok |-> TRUE]
       ELSE [bucket |-> [b EXCEPT !.tokens = refilled, !.last = t], ok |-> FALSE]

(* try_consume: the refilled bucket and whether the amount was taken. *)
try_consume(b, amount, t) ==
    LET elapsed == t - b.last
        refilled == b.tokens + (elapsed * TOKEN_REFILL_RATE * TokenUnit) \div 1000
        clamped == IF refilled > b.capacity * TokenUnit THEN b.capacity * TokenUnit ELSE refilled
    IN IF clamped >= amount * TokenUnit
       THEN [bucket |-> [b EXCEPT !.tokens = clamped - amount * TokenUnit, !.last = t], ok |-> TRUE]
       ELSE [bucket |-> [b EXCEPT !.tokens = clamped, !.last = t], ok |-> FALSE]

PeerState_default(t) ==
    [score |-> 0, bucket |-> TokenBucket_new(t), last_seq |-> None, quarantined |-> FALSE]

(***************************************************************************)
(* Validator state as a record s: the five fields of struct Validator,     *)
(* plus the bookkeeping of one call: d (the Decision returned), target,    *)
(* count and eff (peer, offence number and effective delta of the penalty  *)
(* applied, if any) and evicted (the keys this call removed from peers).   *)
(* HashMap iteration order is unspecified, so an operator that evicts      *)
(* yields the set of states that the possible first keys lead to; an       *)
(* operator on states is lifted to such sets with Bind.                    *)
(***************************************************************************)
Remove(m, k) == [x \in DOMAIN m \ {k} |-> m[x]]
Put(m, k, v) == [x \in DOMAIN m \cup {k} |-> IF x = k THEN v ELSE m[x]]

Bind(S, Op(_)) == UNION {Op(x) : x \in S}

is_quarantined(s, peer) == IF peer \in DOMAIN s.peers THEN s.peers[peer].quarantined ELSE FALSE

get_peer_score(s, peer) == IF peer \in DOMAIN s.peers THEN s.peers[peer].score ELSE 0

get_peer_last_seq(s, peer) == IF peer \in DOMAIN s.peers THEN s.peers[peer].last_seq ELSE None

get_offence_count(s, peer) == IF peer \in DOMAIN s.offences THEN s.offences[peer] ELSE 0

or_insert_default(s, peer, t) ==
    IF peer \in DOMAIN s.peers THEN s
    ELSE [s EXCEPT !.peers = Put(s.peers, peer, PeerState_default(t))]

(* ensure_peer_exists evicting only once the registry is over the cap *)
ensure_peer_exists_late(s, peer, t) ==
    IF Cardinality(DOMAIN s.peers) > MAX_PEERS
    THEN {or_insert_default([s EXCEPT !.peers = Remove(s.peers, old),
                                      !.evicted = Append(s.evicted, old)], peer, t)
            : old \in DOMAIN s.peers}
    ELSE {or_insert_default(s, peer, t)}

ensure_peer_exists(s, peer, t) ==
    IF Cardinality(DOMAIN s.peers) >= MAX_PEERS
    THEN {or_insert_default([s EXCEPT !.peers = Remove(s.peers, old),
                                      !.evicted = Append(s.evicted, old)], peer, t)
            : old \in DOMAIN s.peers}
    ELSE {or_insert_default(s, peer, t)}

(* update_peer_score testing the delta, not the score, against the threshold *)
add_score_by_delta(s, peer, delta) ==
    LET score == s.peers[peer].score + delta
    IN [s EXCEPT !.peers[peer].score = score,
                 !.peers[peer].quarantined = (delta <= QUARANTINE_THRESHOLD * HalfPoints),
                 !.app_scores = Put(s.app_scores, peer, score)]

add_score(s, peer, delta) ==
    LET score == s.peers[peer].score + delta
    IN [s EXCEPT !.peers[peer].score = score,
                 !.peers[peer].quarantined = (score <= QUARANTINE_THRESHOLD * HalfPoints),
                 !.app_scores = Put(s.app_scores, peer, score)]

update_peer_score(s, peer, delta, t) ==
    {add_score(s1, peer, delta) : s1 \in ensure_peer_exists(s, peer, t)}

(* update_peer_last_seq that creates the entry but does not store seq *)
update_peer_last_seq_lost(s, peer, seq, t) == ensure_peer_exists(s, peer, t)

update_peer_last_seq(s, peer, seq, t) ==
    {[s1 EXCEPT !.peers[peer].last_seq = seq] : s1 \in ensure_peer_exists(s, peer, t)}

(* is_dupe that never finds the digest *)
is_dupe_never(s, hash) == FALSE

is_dupe(s, hash) == hash \in s.dedupe_set

(* add_to_dedupe that pops the queue's front but leaves it in the set *)
add_to_dedupe_leak(s, hash) ==
    LET s1 == IF Len(s.dedupe_cache) >= MAX_DEDUPE_SIZE
              THEN [s EXCEPT !.dedupe_cache = Tail(s.dedupe_cache)]
              ELSE s
    IN [s1 EXCEPT !.dedupe_cache = Append(s1.dedupe_cache, hash),
                  !.dedupe_set = s1.dedupe_set \cup {hash}]

(* add_to_dedupe that evicts one entry too early *)
add_to_dedupe_early(s, hash) ==
    LET s1 == IF Len(s.dedupe_cache) >= MAX_DEDUPE_SIZE - 1 /\ s.dedupe_cache # <<>>
              THEN [s EXCEPT !.dedupe_cache = Tail(s.dedupe_cache),
                             !.dedupe_set = s.dedupe_set \ {Head(s.dedupe_cache)}]
              ELSE s
    IN [s1 EXCEPT !.dedupe_cache = Append(s1.dedupe_cache, hash),
                  !.dedupe_set = s1.dedupe_set \cup {hash}]

add_to_dedupe(s, hash) ==
    LET s1 == IF Len(s.dedupe_cache) >= MAX_DEDUPE_SIZE
              THEN [s EXCEPT !.dedupe_cache = Tail(s.dedupe_cache),
                             !.dedupe_set = s.dedupe_set \ {Head(s.dedupe_cache)}]
              ELSE s
    IN [s1 EXCEPT !.dedupe_cache = Append(s1.dedupe_cache, hash),
                  !.dedupe_set = s1.dedupe_set \cup {hash}]

(* effective delta without the escalation *)
effective_delta_flat(base, count) == base * HalfPoints

(* effective delta, in half points, of the count-th offence with base delta base *)
effective_delta(base, count) ==
    LET extra == IF count - 1 > 0 THEN count - 1 ELSE 0
    IN base * (HalfPoints + extra)

(* the hard cap compared one offence too late *)
force_quarantine_late(s, peer, count) ==
    IF count > OFFENCE_HARD_CAP + 1 /\ peer \in DOMAIN s.peers
    THEN [s EXCEPT !.peers[peer].quarantined = TRUE]
    ELSE s

force_quarantine(s, peer, count) ==
    IF count > OFFENCE_HARD_CAP /\ peer \in DOMAIN s.peers
    THEN [s EXCEPT !.peers[peer].quarantined = TRUE]
    ELSE s

(* record_offence_and_update with the count starting over after the hard cap *)
record_offence_and_update_amnesty(s, peer, base, t) ==
    LET count == IF get_offence_count(s, peer) > OFFENCE_HARD_CAP
                 THEN 1 ELSE get_offence_count(s, peer) + 1
        eff == effective_delta(base, count)
        s1 == [s EXCEPT !.offences = Put(s.offences, peer, count),
                        !.target = peer, !.count = count, !.eff = eff]
    IN {force_quarantine(s2, peer, count) : s2 \in update_peer_score(s1, peer, eff, t)}

record_offence_and_update(s, peer, base, t) ==
    LET count == get_offence_count(s, peer) + 1
        eff == effective_delta(base, count)
        s1 == [s EXCEPT !.offences = Put(s.offences, peer, count),
                        !.target = peer, !.count = count, !.eff = eff]
    IN {force_quarantine(s2, peer, count) : s2 \in update_peer_score(s1, peer, eff, t)}

Decision(acceptance, reason, score_delta) ==
    [acceptance |-> acceptance, reason |-> reason, score_delta |-> score_delta]

unwrap_or(author, propagation_source) == IF author = None THEN propagation_source ELSE author

(***************************************************************************)
(* Validator::validate: the states the call can end in, each with the      *)
(* Decision returned in field d.  The function is split at its checks.     *)
(***************************************************************************)
Return(S, d) == {[s EXCEPT !.d = d] : s \in S}

(* validate's content checks with the replay test not reading last_seq *)
validate_content_no_last_seq(s, propagation_source, author, msg, t) ==
    LET target == unwrap_or(author, propagation_source) IN
    IF msg.variant = "Good"
    THEN IF msg.payload = <<>>
         THEN Return(record_offence_and_update(s, target, BASE_EMPTY_PAYLOAD, t),
                     Decision("Reject", "empty_payload", BASE_EMPTY_PAYLOAD))
         ELSE IF msg.seq <= 0
              THEN Return({s}, Decision("Ignore", "replay_or_old_seq", 0))
              ELSE Return(update_peer_last_seq(s, target, msg.seq, t),
                          Decision("Accept", "ok", 0))
    ELSE Return(record_offence_and_update(s, target, BASE_MALICIOUS, t),
                Decision("Reject", "malicious_payload", BASE_MALICIOUS))

(* validate's content checks crediting the author of an accepted message *)
validate_content_reward(s, propagation_source, author, msg, t) ==
    LET target == unwrap_or(author, propagation_source) IN
    IF msg.variant = "Good"
    THEN IF msg.payload = <<>>
         THEN Return(record_offence_and_update(s, target, BASE_EMPTY_PAYLOAD, t),
                     Decision("Reject", "empty_payload", BASE_EMPTY_PAYLOAD))
         ELSE LET lastseq == IF get_peer_last_seq(s, target) = None THEN 0
                             ELSE get_peer_last_seq(s, target)
              IN IF msg.seq <= lastseq
                 THEN Return({s}, Decision("Ignore", "replay_or_old_seq", 0))
                 ELSE Return({add_score(s1, target, HalfPoints) :
                                 s1 \in update_peer_last_seq(s, target, msg.seq, t)},
                             Decision("Accept", "ok", 0))
    ELSE Return(record_offence_and_update(s, target, BASE_MALICIOUS, t),
                Decision("Reject", "malicious_payload", BASE_MALICIOUS))

(* validate's content checks with the replay rule before the empty-payload rule *)
validate_content_replay_first(s, propagation_source, author, msg, t) ==
    LET target == unwrap_or(author, propagation_source) IN
    IF msg.variant = "Good"
    THEN LET lastseq == IF get_peer_last_seq(s, target) = None THEN 0
                        ELSE get_peer_last_seq(s, target)
         IN IF msg.seq <= lastseq
            THEN Return({s}, Decision("Ignore", "replay_or_old_seq", 0))
            ELSE IF msg.payload = <<>>
            THEN Return(record_offence_and_update(s, target, BASE_EMPTY_PAYLOAD, t),
                        Decision("Reject", "empty_payload", BASE_EMPTY_PAYLOAD))
            ELSE Return(update_peer_last_seq(s, target, msg.seq, t),
                        Decision("Accept", "ok", 0))
    ELSE Return(record_offence_and_update(s, target, BASE_MALICIOUS, t),
                Decision("Reject", "malicious_payload", BASE_MALICIOUS))

validate_content(s, propagation_source, author, msg, t) ==
    LET target == unwrap_or(author, propagation_source) IN
    IF msg.variant = "Good"
    THEN IF msg.payload = <<>>
         THEN Return(record_offence_and_update(s, target, BASE_EMPTY_PAYLOAD, t),
                     Decision("Reject", "empty_payload", BASE_EMPTY_PAYLOAD))
         ELSE LET lastseq == IF get_peer_last_seq(s, target) = None THEN 0
                             ELSE get_peer_last_seq(s, target)
              IN IF msg.seq <= lastseq
                 THEN Return({s}, Decision("Ignore", "replay_or_old_seq", 0))
                 ELSE Return(update_peer_last_seq(s, target, msg.seq, t),
                             Decision("Accept", "ok", 0))
    ELSE Return(record_offence_and_update(s, target, BASE_MALICIOUS, t),
                Decision("Reject", "malicious_payload", BASE_MALICIOUS))

(* validate's dedupe step rejecting a duplicate instead of ignoring it *)
validate_dedupe_reject(s, propagation_source, author, bytes, msg, t) ==
    LET key == Sha256Key(bytes) IN
    IF is_dupe(s, key)
    THEN Return({s}, Decision("Reject", "duplicate", 0))
    ELSE validate_content(add_to_dedupe(s, key), propagation_source, author, msg, t)

validate_dedupe(s, propagation_source, author, bytes, msg, t) ==
    LET key == Sha256Key(bytes) IN
    IF is_dupe(s, key)
    THEN Return({s}, Decision("Ignore", "duplicate", 0))
    ELSE validate_content(add_to_dedupe(s, key), propagation_source, author, msg, t)

(* validate's decode step penalising nobody when the message has no author *)
validate_decode_anonymous(s, propagation_source, author, bytes, t) ==
    LET msg == decode(bytes) IN
    IF msg.variant = "Err"
    THEN IF author = None
         THEN Return({s}, Decision("Reject", "decode_error", BASE_DECODE_ERROR))
         ELSE Return(record_offence_and_update(s, author, BASE_DECODE_ERROR, t),
                     Decision("Reject", "decode_error", BASE_DECODE_ERROR))
    ELSE validate_dedupe(s, propagation_source, author, bytes, msg, t)

(* validate's decode step blaming the forwarder for undecodable bytes *)
validate_decode_blame_forwarder(s, propagation_source, author, bytes, t) ==
    LET msg == decode(bytes) IN
    IF msg.variant = "Err"
    THEN Return(record_offence_and_update(s, propagation_source, BASE_DECODE_ERROR, t),
                Decision("Reject", "decode_error", BASE_DECODE_ERROR))
    ELSE validate_dedupe(s, propagation_source, author, bytes, msg, t)

(* validate's decode step dropping undecodable bytes silently *)
validate_decode_silent(s, propagation_source, author, bytes, t) ==
    LET msg == decode(bytes) IN
    IF msg.variant = "Err"
    THEN Return({s}, Decision("Ignore", "decode_error", 0))
    ELSE validate_dedupe(s, propagation_source, author, bytes, msg, t)

validate_decode(s, propagation_source, author, bytes, t) ==
    LET msg == decode(bytes) IN
    IF msg.variant = "Err"
    THEN Return(record_offence_and_update(s, unwrap_or(author, propagation_source),
                                          BASE_DECODE_ERROR, t),
                Decision("Reject", "decode_error", BASE_DECODE_ERROR))
    ELSE validate_dedupe(s, propagation_source, author, bytes, msg, t)

validate_rate_one(s, propagation_source, author, bytes, t) ==
    LET r == try_consume(s.peers[propagation_source].bucket, 1, t)
        s1 == [s EXCEPT !.peers[propagation_source].bucket = r.bucket]
    IN IF ~r.ok
       THEN Return(record_offence_and_update(s1, propagation_source, BASE_RATE_LIMITED, t),
                   Decision("Reject", "rate_limited", BASE_RATE_LIMITED))
       ELSE validate_decode(s1, propagation_source, author, bytes, t)

validate_rate(s, propagation_source, author, bytes, t) ==
    LET Go(s1) == validate_rate_one(s1, propagation_source, author, bytes, t)
    IN Bind(ensure_peer_exists(s, propagation_source, t), Go)

(* the size gate with twice the configured limit *)
validate_size_lenient(s, propagation_source, author, bytes, t) ==
    IF Len(bytes) > 2 * max_message_bytes
    THEN Return(record_offence_and_update(s, unwrap_or(author, propagation_source),
                                          BASE_OVERSIZE, t),
                Decision("Reject", "oversize", BASE_OVERSIZE))
    ELSE validate_rate(s, propagation_source, author, bytes, t)

validate_size(s, propagation_source, author, bytes, t) ==
    IF Len(bytes) > max_message_bytes
    THEN Return(record_offence_and_update(s, unwrap_or(author, propagation_source),
                                          BASE_OVERSIZE, t),
                Decision("Reject", "oversize", BASE_OVERSIZE))
    ELSE validate_rate(s, propagation_source, author, bytes, t)

(* validate with the quarantine gate closed for a quarantined author too *)
validate_author_gated(s, propagation_source, author, bytes, t) ==
    IF is_quarantined(s, propagation_source) \/ is_quarantined(s, author)
    THEN Return({s}, Decision("Ignore", "forwarder_quarantined", 0))
    ELSE validate_size(s, propagation_source, author, bytes, t)

(* validate without the quarantine gate *)
validate_ungated(s, propagation_source, author, bytes, t) ==
    validate_size(s, propagation_source, author, bytes, t)

(* validate with the size gate put before the quarantine gate *)
validate_size_first(s, propagation_source, author, bytes, t) ==
    IF Len(bytes) > max_message_bytes
    THEN validate_size(s, propagation_source, author, bytes, t)
    ELSE IF is_quarantined(s, propagation_source)
    THEN Return({s}, Decision("Ignore", "forwarder_quarantined", 0))
    ELSE validate_size(s, propagation_source, author, bytes, t)

validate(s, propagation_source, author, bytes, t) ==
    IF is_quarantined(s, propagation_source)
    THEN Return({s}, Decision("Ignore", "forwarder_quarantined", 0))
    ELSE validate_size(s, propagation_source, author, bytes, t)

(***************************************************************************)
(* The state machine: Validator::new, then one validate call per step.     *)
(* last records the most recent call: its arguments f (propagation         *)
(* source), a (author) and b (bytes), the Decision d, the penalty applied  *)
(* (target, its offence number count and the effective delta eff; target   *)
(* 0 when none) and the keys evicted, in order.                            *)
(***************************************************************************)
NoDecision == Decision("None", "none", 0)

(***************************************************************************)
(* The node's event loop (run_node).  node holds the loop's locals         *)
(* (counters, honest_accepted, honest_rejected, bad_peer_ids), whether the *)
(* loop is still running, and what the loop has handed to the swarm and    *)
(* to its event channel:                                                   *)
(*   reports   the report_message_validation_result calls, in order, each  *)
(*             with the number of the message event it was made for;       *)
(*   scores    the latest set_application_score per peer;                  *)
(*   published the number of publish calls; subscribed: subscribe called;  *)
(*   dials     the number of dials started;                                *)
(*   events, cmds  the message events and commands handled so far;         *)
(*   summary   the NodeSummary sent on shutdown.                           *)
(***************************************************************************)
NoSummary == [sent |-> FALSE]

NodeInit ==
    [running |-> TRUE,
     counters |-> [accepted |-> 0, rejected |-> 0, ignored |-> 0],
     honest_accepted |-> 0,
     honest_rejected |-> 0,
     bad_peer_ids |-> {},
     reports |-> <<>>,
     scores |-> <<>>,
     subscribed |-> FALSE,
     published |-> 0,
     dials |-> 0,
     events |-> 0,
     cmds |-> 0,
     summary |-> NoSummary]

message_id_fn(data) == Sha256Key(data)

(* the match on decision.acceptance *)
count_decision(n, decision, is_honest_peer) ==
    CASE decision.acceptance = "Accept" ->
            [n EXCEPT !.counters.accepted = @ + 1,
                      !.honest_accepted = IF is_honest_peer THEN @ + 1 ELSE @]
      [] decision.acceptance = "Reject" ->
            [n EXCEPT !.counters.rejected = @ + 1,
                      !.honest_rejected = IF is_honest_peer THEN @ + 1 ELSE @]
      [] decision.acceptance = "Ignore" ->
            [n EXCEPT !.counters.ignored = @ + 1]

(* a report made only for the verdicts that change propagation *)
report_unless_ignored(n, message_id, propagation_source, acceptance) ==
    IF acceptance = "Ignore"
    THEN n
    ELSE [n EXCEPT !.reports = Append(@, [event |-> n.events,
                                          message_id |-> message_id,
                                          propagation_source |-> propagation_source,
                                          acceptance |-> acceptance])]

report_message_validation_result(n, message_id, propagation_source, acceptance) ==
    [n EXCEPT !.reports = Append(@, [event |-> n.events,
                                     message_id |-> message_id,
                                     propagation_source |-> propagation_source,
                                     acceptance |-> acceptance])]

get_app_score_option(v_app_scores, peer) ==
    IF peer \in DOMAIN v_app_scores THEN v_app_scores[peer] ELSE None

(* The arm of the loop for a gossipsub Message event, after its validate   *)
(* call has returned decision and left the validator's app_scores as       *)
(* v_app_scores.                                                           *)
on_message(n, propagation_source, source, data, decision, v_app_scores) ==
    LET author == unwrap_or(source, propagation_source)
        is_honest_peer == author \notin n.bad_peer_ids
        taken == [n EXCEPT !.events = @ + 1]
        counted == count_decision(taken, decision, is_honest_peer)
        reported == report_message_validation_result(
                        counted, message_id_fn(data), propagation_source,
                        decision.acceptance)
        target == unwrap_or(source, propagation_source)
    IN  IF target \in DOMAIN v_app_scores
        THEN [reported EXCEPT !.scores = Put(@, target, get_app_score_option(v_app_scores, target))]
        ELSE reported

(* The Shutdown arm: the summary sent on the event channel. *)
NodeSummary(n, quarantined) ==
    [sent |-> TRUE,
     accepted |-> n.counters.accepted,
     rejected |-> n.counters.rejected,
     ignored |-> n.counters.ignored,
     quarantined_peers |-> quarantined,
     honest_accepted |-> n.honest_accepted,
     honest_rejected |-> n.honest_rejected]

get_quarantined_count(s) == Cardinality({p \in DOMAIN s.peers : s.peers[p].quarantined})

NoCall == [f |-> 0, a |-> None, b |-> <<>>, d |-> NoDecision,
           target |-> 0, count |-> 0, eff |-> 0, evicted |-> <<>>]

Bases == {BASE_OVERSIZE, BASE_RATE_LIMITED, BASE_DECODE_ERROR, BASE_EMPTY_PAYLOAD,
          BASE_MALICIOUS}

(* History of the calls so far:                                            *)
(*   acc_seq[p]   greatest seq of a Good message of author p accepted so   *)
(*                far (0: none);                                           *)
(*   acc_live[p]  the same, counted since p's registry entry was created;  *)
(*   acc_by[b]    for accepted bytes b: the forwarder of the accepted call *)
(*                and the number of digests cached since (capped);         *)
(*   prev_eff[<<p, base>>]  magnitude of the latest effective delta of a   *)
(*                penalty of that base on p (0: none);                     *)
(*   seen         number of peer identities that have occurred;            *)
(*   q_ever       the peers that were quarantined after some call;         *)
(*   q_live       those of them whose registry entry was not evicted since;*)
(*   arr          the arrival times of the calls of the scenario of        *)
(*                NextRate.                                                *)
NoHistory ==
    [seen |-> 0,
     acc_seq |-> [p \in PeerIds |-> 0],
     acc_live |-> [p \in PeerIds |-> 0],
     acc_by |-> <<>>,
     prev_eff |-> [x \in PeerIds \X Bases |-> 0],
     q_ever |-> {},
     q_live |-> {},
     arr |-> <<>>]

Init ==
    /\ peers = <<>>
    /\ dedupe_cache = <<>>
    /\ dedupe_set = {}
    /\ offences = <<>>
    /\ app_scores = <<>>
    /\ now = 0
    /\ last = NoCall
    /\ hist = NoHistory
    /\ calls = 0
    /\ node = NodeInit

(* The validator's fields as the record the operators work on. *)
Self ==
    [peers |-> peers, dedupe_cache |-> dedupe_cache, dedupe_set |-> dedupe_set,
     offences |-> offences, app_scores |-> app_scores,
     evicted |-> <<>>, d |-> NoDecision, target |-> 0, count |-> 0, eff |-> 0]

Range(q) == {q[i] : i \in DOMAIN q}
Max(x, y) == IF x >= y THEN x ELSE y
Abs(x) == IF x < 0 THEN -x ELSE x
Caches(reason) == reason \in {"empty_payload", "replay_or_old_seq", "malicious_payload", "ok"}

Record(h, f, a, b, r) ==
    LET target == unwrap_or(a, f)
        ok == r.d.reason = "ok"
        aged == [x \in DOMAIN h.acc_by |->
                    [h.acc_by[x] EXCEPT !.age = IF Caches(r.d.reason) /\ @ < MAX_DEDUPE_SIZE
                                                THEN @ + 1 ELSE @]]
    IN [seen |-> Max(h.seen, Max(f, a)),
        acc_seq |-> IF ok THEN [h.acc_seq EXCEPT ![target] = Max(@, decode(b).seq)]
                    ELSE h.acc_seq,
        acc_live |-> [p \in PeerIds |->
                        IF ok /\ p = target THEN decode(b).seq
                        ELSE IF p \in Range(r.evicted) THEN 0
                        ELSE h.acc_live[p]],
        acc_by |-> IF ok THEN Put(aged, b, [f |-> f, age |-> 0]) ELSE aged,
        prev_eff |-> IF r.target # 0
                     THEN [h.prev_eff EXCEPT ![<<r.target, r.d.score_delta>>] = Abs(r.eff)]
                     ELSE h.prev_eff,
        q_ever |-> h.q_ever \cup {p \in DOMAIN r.peers : r.peers[p].quarantined},
        q_live |-> (h.q_live \ Range(r.evicted))
                      \cup {p \in DOMAIN r.peers : r.peers[p].quarantined},
        arr |-> h.arr]

(* One validate call at time now + dt; timed tells whether the scenario    *)
(* keeps the arrival time in hist.arr.                                     *)
ValidateCall(f, a, b, dt, timed) ==
    \E r \in validate(Self, f, a, b, now + dt) :
        /\ peers' = r.peers
        /\ dedupe_cache' = r.dedupe_cache
        /\ dedupe_set' = r.dedupe_set
        /\ offences' = r.offences
        /\ app_scores' = r.app_scores
        /\ now' = now + dt
        /\ last' = [f |-> f, a |-> a, b |-> b, d |-> r.d, target |-> r.target,
                    count |-> r.count, eff |-> r.eff, evicted |-> r.evicted]
        /\ hist' = IF timed
                    THEN [Record(hist, f, a, b, r) EXCEPT !.arr = Append(@, now + dt)]
                    ELSE Record(hist, f, a, b, r)
        /\ calls' = calls + 1

(* A validate call seen on its own: the loop's locals are left aside. *)
ValidateAt(f, a, b, dt, timed) == ValidateCall(f, a, b, dt, timed) /\ UNCHANGED node

Validate(f, a, b, dt) == ValidateAt(f, a, b, dt, FALSE)

(* Time passes between two calls; it is let pass once a bucket has run dry, *)
(* which is when it changes what the next call does.                       *)
Tick ==
    /\ now < MaxTicks * TickMs
    /\ \E p \in DOMAIN peers : peers[p].bucket.tokens < TokenUnit
    /\ now' = now + TickMs
    /\ UNCHANGED <<peers, dedupe_cache, dedupe_set, offences, app_scores, last, hist, calls,
                   node>>

(* Any peer forwards any of the byte strings, with any author.  Peer        *)
(* identities are opaque and the validator treats them alike, so a peer    *)
(* that has not occurred yet is given the least unused identity.           *)
Min(x, y) == IF x <= y THEN x ELSE y

Deliver ==
    /\ calls < MaxCalls
    /\ \E f \in 1..Min(hist.seen + 1, NumPeers) :
       \E a \in {None} \cup 1..Min(Max(hist.seen, f) + 1, NumPeers) :
       \E b \in Msgs : Validate(f, a, b, 0)

Next == Deliver \/ Tick

Spec == Init /\ [][Next]_vars

(***************************************************************************)
(* Escalation: an attacker's traffic reaches the node through a relay,     *)
(* while a bystander and the attacker itself publish well-formed messages. *)
(***************************************************************************)
Attacker == 1
Relay == 2
Bystander == 3

EscMoves ==
    {<<Relay, Attacker, BadMsg>>, <<Relay, Attacker, OversizeMsg>>,
     <<Relay, Attacker, JunkMsg>>, <<Bystander, None, encode(Good(1, <<7>>))>>,
     <<Attacker, None, encode(Good(2, <<7>>))>>}

NextEsc ==
    /\ calls < MaxEscCalls
    /\ \E m \in EscMoves : Validate(m[1], m[2], m[3], 0)

SpecEsc == Init /\ [][NextEsc]_vars

(***************************************************************************)
(* Scenario S3: the attacker publishes the encoded Bad message to this     *)
(* node again and again, a tick and up to MaxJitter ms apart.              *)
(***************************************************************************)
NextBad ==
    /\ calls < MaxBadCalls
    /\ \E a \in {Attacker, None}, j \in 0..MaxJitter :
           Validate(Attacker, a, BadMsg, TickMs + j)

SpecBad == Init /\ [][NextBad]_vars

(***************************************************************************)
(* Scenario S4: one forwarder delivers valid, distinct messages (its own,  *)
(* with growing seq) to a fresh validator, each at once, half a token's    *)
(* refill time, one token's refill time or PauseMs after the one before.   *)
(* hist.arr records the arrival times.                                     *)
(***************************************************************************)
PauseMs == 1000

Gaps == {0, TickMs \div 2, TickMs, PauseMs}

Arrive(dt) == ValidateAt(Attacker, None, encode(Good(calls + 1, <<7>>)), dt, TRUE)

NextRate ==
    /\ calls < MaxRateCalls
    /\ \E dt \in Gaps : Arrive(dt)

SpecRate == Init /\ [][NextRate]_vars

(* The same forwarder, while a second peer's messages arrive in between    *)
(* and the registry, once full, evicts on every ensure_peer_exists.        *)
Interleave ==
    /\ calls < MaxRateCalls
    /\ Validate(Bystander, None, encode(Good(calls + 1, <<7>>)), 0)

NextFair == NextRate \/ Interleave

SpecFair == Init /\ [][NextFair]_vars

(***************************************************************************)
(* One token bucket on its own: a peer is admitted, which creates its      *)
(* bucket, and try_consume is then called on it with any amount, after any *)
(* of a few delays (none, a fraction of a token, one token, more than the  *)
(* capacity).  last records the amount asked for and the answer.           *)
(***************************************************************************)
Elapsed == {0, TickMs \div 3, TickMs, (TOKEN_BUCKET_CAPACITY + 1) * TickMs}

Admit ==
    /\ Attacker \notin DOMAIN peers
    /\ \E s \in ensure_peer_exists(Self, Attacker, now) : peers' = s.peers
    /\ UNCHANGED <<dedupe_cache, dedupe_set, offences, app_scores, now, last, hist, calls,
                   node>>

Consume ==
    /\ calls < MaxConsumes
    /\ Attacker \in DOMAIN peers
    /\ \E amount \in 0..MaxAmount, dt \in Elapsed :
          LET r == try_consume(peers[Attacker].bucket, amount, now + dt)
          IN /\ peers' = [peers EXCEPT ![Attacker].bucket = r.bucket]
             /\ now' = now + dt
             /\ last' = [f |-> Attacker, amount |-> amount, ok |-> r.ok]
             /\ calls' = calls + 1
    /\ UNCHANGED <<dedupe_cache, dedupe_set, offences, app_scores, hist, node>>

NextBucket == Admit \/ Consume

SpecBucket == Init /\ [][NextBucket]_vars

(***************************************************************************)
(* The node: the loop takes, one at a time, a gossipsub Message event      *)
(* (the traffic of the escalation scenario) or a command.  A failing dial  *)
(* or subscribe ends the loop with an error, Shutdown ends it with the     *)
(* summary.                                                                *)
(***************************************************************************)
OnMessage ==
    /\ node.running
    /\ node.events < MaxEvents
    /\ \E m \in EscMoves :
          /\ ValidateCall(m[1], m[2], m[3], 0, FALSE)
          /\ node' = on_message(node, m[1], m[2], m[3], last'.d, app_scores')

Command(n) ==
    /\ node.running
    /\ node.cmds < MaxCmds
    /\ node' = [n EXCEPT !.cmds = @ + 1]
    /\ UNCHANGED <<peers, dedupe_cache, dedupe_set, offences, app_scores, now, last, hist,
                   calls>>

OnDial ==
    \/ Command([node EXCEPT !.dials = @ + 1])
    \/ Command([node EXCEPT !.running = FALSE])

OnSubscribe ==
    \/ Command([node EXCEPT !.subscribed = TRUE])
    \/ Command([node EXCEPT !.running = FALSE])

OnPublish == Command([node EXCEPT !.published = @ + 1])

OnSetBadPeers ==
    \E new_bad_peers \in SUBSET {Attacker} :
        Command([node EXCEPT !.bad_peer_ids = new_bad_peers])

OnShutdown ==
    Command([node EXCEPT !.summary = NodeSummary(node, get_quarantined_count(Self)),
                         !.running = FALSE])

NextNode == OnMessage \/ OnDial \/ OnSubscribe \/ OnPublish \/ OnSetBadPeers \/ OnShutdown

SpecNode == Init /\ [][NextNode]_vars

(***************************************************************************)
(* The rules of the pipeline as the specification tables them, evaluated   *)
(* on the state before a call c (the unprimed variables) and the call's    *)
(* arguments.  The rate, replay and later rules read the registry as the   *)
(* rate check's ensure_peer_exists leaves it: FirstEvicted is the key it   *)
(* removed, if any.                                                        *)
(***************************************************************************)
IsCall == calls' = calls + 1

Target(c) == IF c.a = None THEN c.f ELSE c.a

FirstEvicted(c) ==
    IF Cardinality(DOMAIN peers) >= MAX_PEERS /\ c.evicted # <<>> THEN c.evicted[1] ELSE 0

Known(c, p) == p \in DOMAIN peers /\ p # FirstEvicted(c)

Refilled(b, t) ==
    Min(b.capacity * TokenUnit, b.tokens + ((t - b.last) * TOKEN_REFILL_RATE * TokenUnit) \div 1000)

RuleQuarantine(c) == c.f \in DOMAIN peers /\ peers[c.f].quarantined
RuleSize(c) == Len(c.b) > max_message_bytes
RuleRate(c) == Known(c, c.f) /\ Refilled(peers[c.f].bucket, now') < TokenUnit
RuleDecode(c) == decode(c.b).variant = "Err"
RuleDedupe(c) == Sha256Key(c.b) \in dedupe_set
RuleEmpty(c) == decode(c.b).variant = "Good" /\ decode(c.b).payload = <<>>
RuleReplay(c) ==
    /\ decode(c.b).variant = "Good"
    /\ decode(c.b).seq <= (IF Known(c, Target(c)) /\ peers[Target(c)].last_seq # None
                           THEN peers[Target(c)].last_seq ELSE 0)
RuleMalicious(c) == decode(c.b).variant = "Bad"

FirstRule(c) ==
    CASE RuleQuarantine(c) -> "forwarder_quarantined"
      [] ~RuleQuarantine(c) /\ RuleSize(c) -> "oversize"
      [] OTHER ->
         IF RuleRate(c) THEN "rate_limited"
         ELSE IF RuleDecode(c) THEN "decode_error"
         ELSE IF RuleDedupe(c) THEN "duplicate"
         ELSE IF RuleEmpty(c) THEN "empty_payload"
         ELSE IF RuleReplay(c) THEN "replay_or_old_seq"
         ELSE IF RuleMalicious(c) THEN "malicious_payload"
         ELSE "ok"

(* The table of section 4.5.2: outcome and base delta of each reason code. *)
DecisionOf(reason) ==
    CASE reason = "forwarder_quarantined" -> Decision("Ignore", reason, 0)
      [] reason = "oversize" -> Decision("Reject", reason, -60)
      [] reason = "rate_limited" -> Decision("Reject", reason, -5)
      [] reason = "decode_error" -> Decision("Reject", reason, -30)
      [] reason = "duplicate" -> Decision("Ignore", reason, 0)
      [] reason = "empty_payload" -> Decision("Reject", reason, -30)
      [] reason = "replay_or_old_seq" -> Decision("Ignore", reason, 0)
      [] reason = "malicious_payload" -> Decision("Reject", reason, -80)
      [] reason = "ok" -> Decision("Accept", reason, 0)

Penalises(reason) ==
    reason \in {"oversize", "rate_limited", "decode_error", "empty_payload", "malicious_payload"}

BlameTarget(c) == IF c.d.reason = "rate_limited" THEN c.f ELSE Target(c)

(* p's registry entry before the call is still p's entry after it *)
Kept(c, p) == p \in DOMAIN peers /\ p \in DOMAIN peers' /\ p \notin Range(c.evicted)

OffenceCount(p) == IF p \in DOMAIN offences THEN offences[p] ELSE 0

(* What a call that ends at a given rule leaves alone. *)
NoTokenTaken(c) ==
    \A p \in DOMAIN peers' :
        peers'[p].bucket = IF Kept(c, p) THEN peers[p].bucket ELSE TokenBucket_new(now')
NoDigestCached == dedupe_cache' = dedupe_cache /\ dedupe_set' = dedupe_set
NoSeqUpdate(c) ==
    \A p \in DOMAIN peers' :
        peers'[p].last_seq = IF Kept(c, p) THEN peers[p].last_seq ELSE None
NoPenalty(c) ==
    /\ offences' = offences
    /\ app_scores' = app_scores
    /\ \A p \in DOMAIN peers' :
        /\ peers'[p].score = IF Kept(c, p) THEN peers[p].score ELSE 0
        /\ peers'[p].quarantined = IF Kept(c, p) THEN peers[p].quarantined ELSE FALSE
OnePenalty(c) ==
    /\ offences' = Put(offences, BlameTarget(c), OffenceCount(BlameTarget(c)) + 1)
    /\ \A p \in DOMAIN peers' \ {BlameTarget(c)} :
        peers'[p].score = IF Kept(c, p) THEN peers[p].score ELSE 0

NoLaterEffect(c) ==
    LET reason == c.d.reason IN
    /\ reason = "forwarder_quarantined" =>
          <<peers', dedupe_cache', dedupe_set', offences', app_scores'>>
             = <<peers, dedupe_cache, dedupe_set, offences, app_scores>>
    /\ reason \in {"forwarder_quarantined", "oversize"} => NoTokenTaken(c)
    /\ ~Caches(reason) => NoDigestCached
    /\ reason # "ok" => NoSeqUpdate(c)
    /\ IF Penalises(reason) THEN OnePenalty(c) ELSE NoPenalty(c)

IsReject(c, reason) == c.d.acceptance = "Reject" /\ c.d.reason = reason
IsIgnore(c, reason) == c.d.acceptance = "Ignore" /\ c.d.reason = reason

(* C2 as stated: validate on bytes longer than max_message_bytes returns   *)
(* (Reject, oversize), for every forwarder and author.                     *)
C2_Original ==
    [][IsCall /\ Len(last'.b) > max_message_bytes => IsReject(last', "oversize")]_vars

(* C2 amended: validate on bytes longer than max_message_bytes returns     *)
(* (Reject, oversize) whenever the forwarder is not quarantined.           *)
C2_Oversize ==
    [][IsCall /\ Len(last'.b) > max_message_bytes /\ ~RuleQuarantine(last')
          => IsReject(last', "oversize")]_vars

(* oversize bytes were rejected although the forwarder's bucket was empty *)
C2_Witness ==
    /\ IsReject(last, "oversize")
    /\ Len(last.b) > max_message_bytes
    /\ last.f \in DOMAIN peers
    /\ peers[last.f].bucket.tokens < TokenUnit

(* C3 as stated: validate on bytes that decode to no variant returns       *)
(* (Reject, decode_error).                                                 *)
C3_Original ==
    [][IsCall /\ RuleDecode(last') => IsReject(last', "decode_error")]_vars

(* C3 amended: validate on bytes that decode to no variant returns         *)
(* (Reject, decode_error) whenever the call passes the quarantine, size    *)
(* and rate-limit checks.                                                  *)
C3_DecodeError ==
    [][IsCall /\ RuleDecode(last') /\ ~RuleQuarantine(last') /\ ~RuleSize(last')
          /\ ~RuleRate(last') => IsReject(last', "decode_error")]_vars

(* undecodable bytes of another author were rejected as decode_error *)
C3_Witness ==
    /\ IsReject(last, "decode_error")
    /\ decode(last.b).variant = "Err"
    /\ last.a \notin {None, last.f}
    /\ last.target = last.a

(* C4: a Good message with an empty payload that passes the quarantine,    *)
(* size, rate-limit, decode and dedupe checks is rejected as               *)
(* empty_payload, whatever its seq and the author's last_seq.              *)
C4_EmptyPayload ==
    [][IsCall /\ RuleEmpty(last') /\ ~RuleQuarantine(last') /\ ~RuleSize(last')
          /\ ~RuleRate(last') /\ ~RuleDedupe(last') => IsReject(last', "empty_payload")]_vars

(* an empty payload was rejected although its seq was not above the author's last_seq *)
C4_Witness ==
    /\ IsReject(last, "empty_payload")
    /\ get_peer_last_seq(Self, Target(last)) # None
    /\ decode(last.b).seq <= get_peer_last_seq(Self, Target(last))

(* C5 as stated: once Good{seq=s} of author p was accepted, every later    *)
(* validate of a Good message of author p with seq <= s returns            *)
(* (Ignore, replay_or_old_seq).                                            *)
C5_Original ==
    [][IsCall /\ decode(last'.b).variant = "Good"
          /\ hist.acc_seq[Target(last')] >= 1
          /\ decode(last'.b).seq <= hist.acc_seq[Target(last')]
          => IsIgnore(last', "replay_or_old_seq")]_vars

(* C5 amended: once Good{seq=s} of author p was accepted, a later validate *)
(* of a Good message of author p with seq <= s that passes the quarantine, *)
(* size, rate-limit, decode, dedupe and empty-payload checks returns       *)
(* (Ignore, replay_or_old_seq), as long as p's registry entry has not been *)
(* evicted since the acceptance.                                           *)
C5_Replay ==
    [][IsCall /\ decode(last'.b).variant = "Good"
          /\ hist.acc_live[Target(last')] >= 1
          /\ decode(last'.b).seq <= hist.acc_live[Target(last')]
          /\ Target(last') # FirstEvicted(last')
          /\ ~RuleQuarantine(last') /\ ~RuleSize(last') /\ ~RuleRate(last')
          /\ ~RuleDedupe(last') /\ ~RuleEmpty(last')
          => IsIgnore(last', "replay_or_old_seq")]_vars

(* a Good message below an accepted seq of its author was ignored as a replay *)
C5_Witness ==
    /\ IsIgnore(last, "replay_or_old_seq")
    /\ hist.acc_live[Target(last)] >= 1
    /\ decode(last.b).seq >= 1
    /\ decode(last.b).seq < hist.acc_live[Target(last)]

(* C6 as stated: once validate accepted bytes b, a second validate of b    *)
(* from the same peer returns (Ignore, duplicate).                         *)
C6_Original ==
    [][IsCall /\ last'.b \in DOMAIN hist.acc_by /\ hist.acc_by[last'.b].f = last'.f
          => IsIgnore(last', "duplicate")]_vars

(* C6 amended: once validate accepted bytes b, a later validate of b from  *)
(* the same peer returns (Ignore, duplicate) provided that peer is not     *)
(* quarantined, its bucket holds a token, and fewer than MAX_DEDUPE_SIZE   *)
(* digests were cached since b was accepted.                               *)
C6_Duplicate ==
    [][IsCall /\ last'.b \in DOMAIN hist.acc_by /\ hist.acc_by[last'.b].f = last'.f
          /\ hist.acc_by[last'.b].age < MAX_DEDUPE_SIZE
          /\ ~RuleQuarantine(last') /\ ~RuleRate(last')
          => IsIgnore(last', "duplicate")]_vars

(* accepted bytes came again from the same peer, after another digest was cached *)
C6_Witness ==
    /\ IsIgnore(last, "duplicate")
    /\ last.b \in DOMAIN hist.acc_by
    /\ hist.acc_by[last.b].f = last.f
    /\ hist.acc_by[last.b].age >= 1

(* C7 as stated: from a fresh validator, validating the encoded Bad        *)
(* message five times in a row for the same author applies the penalties   *)
(* -80, -120, -160, -200 and -240, leaving the author at -800 and          *)
(* quarantined.                                                            *)
C7_Original ==
    calls = 5 =>
        /\ get_peer_score(Self, Attacker) = -800 * HalfPoints
        /\ OffenceCount(Attacker) = 5
        /\ is_quarantined(Self, Attacker)

(* C7 amended: from a fresh validator, validating the encoded Bad message  *)
(* five times in a row for the same author penalises the author once: the  *)
(* first call returns (Reject, malicious_payload) and applies -80, each    *)
(* repeat returns (Ignore, duplicate) and applies nothing, leaving the     *)
(* author at -80 with one offence and not quarantined.                     *)
C7_BadOnce ==
    calls >= 1 =>
        /\ get_peer_score(Self, Attacker) = -80 * HalfPoints
        /\ OffenceCount(Attacker) = 1
        /\ ~is_quarantined(Self, Attacker)
        /\ calls = 1 => IsReject(last, "malicious_payload") /\ last.eff = -80 * HalfPoints
        /\ calls > 1 => IsIgnore(last, "duplicate") /\ last.target = 0

(* the fifth Bad message in a row was validated *)
C7_Witness == calls = 5 /\ last.b = BadMsg /\ IsIgnore(last, "duplicate")

C9_QuarantineIff ==
    \A p \in DOMAIN peers :
        peers[p].quarantined <=>
            (\/ peers[p].score <= QUARANTINE_THRESHOLD * HalfPoints
             \/ OffenceCount(p) > OFFENCE_HARD_CAP)

(* C10: right after a penalty its target is quarantined exactly when its   *)
(* score is at most -90 or it has more than 4 offences; after one penalty  *)
(* of -80 it is not quarantined, after a following penalty of base -60 it  *)
(* is (its entry going from -80 to -170), and after its fifth penalty it   *)
(* is quarantined whatever its score.                                      *)
C10_QuarantineAfterPenalty ==
    [][IsCall /\ last'.target # 0 =>
         LET c == last'
             t == c.target
         IN /\ is_quarantined([peers |-> peers'], t) <=>
                  (\/ peers'[t].score <= -90 * HalfPoints
                   \/ offences'[t] > 4)
            /\ (c.count = 1 /\ c.d.score_delta = -80) =>
                  peers'[t].score = -80 * HalfPoints /\ ~peers'[t].quarantined
            /\ (c.count = 2 /\ c.d.score_delta = -60 /\ hist.prev_eff[<<t, -80>>] > 0) =>
                  /\ peers'[t].quarantined
                  /\ (Kept(c, t) /\ peers[t].score = -80 * HalfPoints) =>
                        peers'[t].score = -170 * HalfPoints
            /\ c.count >= 5 => peers'[t].quarantined]_vars

(* a fifth penalty quarantined a peer whose score is still above the threshold *)
C10_Witness ==
    /\ last.target # 0
    /\ last.count = 5
    /\ peers[last.target].score > QUARANTINE_THRESHOLD * HalfPoints
    /\ peers[last.target].quarantined

C12_Original ==
    [][IsCall /\ last'.f \in hist.q_ever => IsIgnore(last', "forwarder_quarantined")]_vars

(* C12 amended: once a forwarder F has been quarantined, every later       *)
(* validate call whose forwarder is F returns                              *)
(* (Ignore, forwarder_quarantined) and changes nothing, whatever the       *)
(* author and bytes and whatever calls are interleaved, as long as F's     *)
(* registry entry has not been evicted since.                              *)
C12_IsolatedWhileKept ==
    [][IsCall /\ last'.f \in hist.q_live
          => /\ IsIgnore(last', "forwarder_quarantined")
             /\ <<peers', dedupe_cache', dedupe_set', offences', app_scores'>>
                   = <<peers, dedupe_cache, dedupe_set, offences, app_scores>>]_vars

(* a well-formed, fresh message of a forwarder quarantined at least two    *)
(* calls earlier was ignored                                               *)
C12_Witness ==
    /\ IsIgnore(last, "forwarder_quarantined")
    /\ last.f \in hist.q_live
    /\ decode(last.b).variant = "Good"
    /\ decode(last.b).payload # <<>>
    /\ Sha256Key(last.b) \notin dedupe_set
    /\ calls >= 4

(* C13 as stated: once an author's last_seq is set, no validate call       *)
(* unsets it or makes it smaller.                                          *)
C13_Original ==
    [][IsCall => \A p \in PeerIds :
          get_peer_last_seq(Self, p) # None
              => /\ get_peer_last_seq([peers |-> peers'], p) # None
                 /\ get_peer_last_seq([peers |-> peers'], p) >= get_peer_last_seq(Self, p)]_vars

(* C13 amended: once an author's last_seq is set, no validate call unsets  *)
(* it or makes it smaller as long as the author's registry entry is not    *)
(* evicted.                                                                *)
C13_MonotoneWhileKept ==
    [][IsCall => \A p \in PeerIds :
          (get_peer_last_seq(Self, p) # None /\ Kept(last', p))
              => /\ peers'[p].last_seq # None
                 /\ peers'[p].last_seq >= peers[p].last_seq]_vars

(* one author's seq 1 and then seq 2 were accepted, with no eviction *)
C13_Witness ==
    /\ calls = 2
    /\ last.d.reason = "ok"
    /\ decode(last.b).seq = 2
    /\ last.evicted = <<>>
    /\ DOMAIN peers = {Target(last)}
    /\ peers[Target(last)].last_seq = 2
    /\ Sha256Key(encode(Good(1, <<7>>))) \in dedupe_set

(* C14: in every reachable state the peer registry holds at most MAX_PEERS *)
(* entries and the dedupe cache (queue and set) at most MAX_DEDUPE_SIZE.   *)
C14_Bounded ==
    /\ Cardinality(DOMAIN peers) <= MAX_PEERS
    /\ Len(dedupe_cache) <= MAX_DEDUPE_SIZE
    /\ Cardinality(dedupe_set) <= MAX_DEDUPE_SIZE

(* both are full: the last call evicted a peer, and accepted bytes have     *)
(* been pushed out of the dedupe cache                                     *)
C14_Witness ==
    /\ Cardinality(DOMAIN peers) = MAX_PEERS
    /\ Len(dedupe_cache) = MAX_DEDUPE_SIZE
    /\ last.evicted # <<>>
    /\ hist.seen > MAX_PEERS
    /\ \E b \in DOMAIN hist.acc_by : Sha256Key(b) \notin dedupe_set

(* C15: in every reachable state the dedupe set holds exactly the hashes   *)
(* of the dedupe queue, and no hash occurs twice in the queue.             *)
C15_SetMatchesQueue ==
    /\ dedupe_set = Range(dedupe_cache)
    /\ Cardinality(Range(dedupe_cache)) = Len(dedupe_cache)

(* bytes that were accepted, then pushed out of the full queue, came      *)
(* again and their digest was queued a second time                         *)
C15_Witness ==
    /\ last.d.reason = "replay_or_old_seq"
    /\ last.b \in DOMAIN hist.acc_by
    /\ Len(dedupe_cache) = MAX_DEDUPE_SIZE
    /\ dedupe_cache[Len(dedupe_cache)] = Sha256Key(last.b)

(* C16: after every try_consume(n) the bucket's tokens are within          *)
(* [0, capacity]; the call answers true exactly when the refilled, clamped *)
(* amount is at least n, then subtracts exactly n from it, and otherwise   *)
(* subtracts nothing.                                                      *)
C16_TryConsume ==
    [][IsCall =>
         LET before == peers[Attacker].bucket
             after == peers'[Attacker].bucket
             refilled == Refilled(before, now')
             n == last'.amount
         IN /\ after.tokens >= 0
            /\ after.tokens <= after.capacity * TokenUnit
            /\ after.capacity = TOKEN_BUCKET_CAPACITY
            /\ last'.ok <=> refilled >= n * TokenUnit
            /\ last'.ok => after.tokens = refilled - n * TokenUnit
            /\ ~last'.ok => after.tokens = refilled]_vars

(* a call was refused and left a partly refilled bucket as it was, after   *)
(* an earlier call had emptied the bucket                                  *)
C16_Witness ==
    /\ calls >= 2
    /\ last.f = Attacker
    /\ ~last.ok
    /\ last.amount = 1
    /\ peers[Attacker].bucket.tokens > 0
    /\ peers[Attacker].bucket.tokens < TokenUnit

(* The arrival times arr keep to a sustained rate of TOKEN_REFILL_RATE     *)
(* per second with bursts of at most TOKEN_BUCKET_CAPACITY: any run of     *)
(* consecutive arrivals counts at most the capacity plus what the rate     *)
(* allows in the time the run takes.                                       *)
Conforms(arr) ==
    \A i \in DOMAIN arr : \A j \in i..Len(arr) :
        (j - i + 1) * TokenUnit
            <= TOKEN_BUCKET_CAPACITY * TokenUnit
                 + ((arr[j] - arr[i]) * TOKEN_REFILL_RATE * TokenUnit) \div 1000

(* C17: a call of a forwarder whose arrivals, this one included, keep to   *)
(* the refill rate with bursts of at most the capacity does not return     *)
(* rate_limited.                                                           *)
C17_Fairness ==
    [][IsCall /\ last'.f = Attacker /\ Conforms(hist'.arr)
          => last'.d.reason # "rate_limited"]_vars

(* a forwarder that kept to the rate was accepted with its last token,     *)
(* after more arrivals than the capacity and no pause                      *)
C17_Witness ==
    /\ Len(hist.arr) > TOKEN_BUCKET_CAPACITY + 1
    /\ Conforms(hist.arr)
    /\ hist.arr[Len(hist.arr)] < PauseMs
    /\ last.d.reason = "ok"
    /\ peers[Attacker].bucket.tokens = 0

(* C18 as stated: of capacity + 1 valid distinct messages that one fresh   *)
(* forwarder delivers within 100 ms, the first capacity many are accepted  *)
(* and the last returns (Reject, rate_limited), wherever in the window     *)
(* they arrive; after a pause of 1 s the next one is accepted.             *)
C18_Original ==
    [][IsCall =>
         LET arr == hist'.arr
             k == Len(arr)
             K == TOKEN_BUCKET_CAPACITY
         IN /\ (k <= K /\ arr[k] - arr[1] <= 100) => last'.d = DecisionOf("ok")
            /\ (k = K + 1 /\ arr[k] - arr[1] <= 100) => IsReject(last', "rate_limited")
            /\ (k = K + 2 /\ arr[K + 1] - arr[1] <= 100 /\ arr[k] - arr[K + 1] >= PauseMs)
                  => last'.d = DecisionOf("ok")]_vars

(* C18 amended: of capacity + 1 valid distinct messages that one fresh     *)
(* forwarder delivers within less than the time one token takes to refill  *)
(* (20 ms at 50 tokens/s), the first capacity many are accepted and the    *)
(* last returns (Reject, rate_limited), wherever in that window they       *)
(* arrive; after a pause of 1 s the next one is accepted.                  *)
C18_Burst ==
    [][IsCall =>
         LET arr == hist'.arr
             k == Len(arr)
             K == TOKEN_BUCKET_CAPACITY
         IN /\ (k <= K /\ arr[k] - arr[1] < TickMs) => last'.d = DecisionOf("ok")
            /\ (k = K + 1 /\ arr[k] - arr[1] < TickMs) => IsReject(last', "rate_limited")
            /\ (k = K + 2 /\ arr[K + 1] - arr[1] < TickMs /\ arr[k] - arr[K + 1] >= PauseMs)
                  => last'.d = DecisionOf("ok")]_vars

(* the burst was spread over the window, its last message was rejected and *)
(* penalised, and the message after the pause was accepted                 *)
C18_Witness ==
    /\ Len(hist.arr) = TOKEN_BUCKET_CAPACITY + 2
    /\ hist.arr[TOKEN_BUCKET_CAPACITY + 1] > hist.arr[1]
    /\ hist.arr[TOKEN_BUCKET_CAPACITY + 1] - hist.arr[1] < TickMs
    /\ hist.arr[TOKEN_BUCKET_CAPACITY + 2] - hist.arr[TOKEN_BUCKET_CAPACITY + 1] >= PauseMs
    /\ last.d.reason = "ok"
    /\ OffenceCount(Attacker) = 1
    /\ get_peer_score(Self, Attacker) = BASE_RATE_LIMITED * HalfPoints

(* The closed set of reason codes. *)
Reasons ==
    {"forwarder_quarantined", "oversize", "rate_limited", "decode_error", "duplicate",
     "empty_payload", "replay_or_old_seq", "malicious_payload", "ok"}

(* C19: in every reachable state that a further call can follow, validate  *)
(* returns, for every forwarder, author and bytes, a Decision whose reason *)
(* is one of the nine reason codes and whose acceptance and score_delta    *)
(* are the ones fixed for that reason.                                     *)
C19_Total ==
    calls < MaxCalls =>
        \A f \in PeerIds : \A a \in Authors : \A b \in Msgs :
            LET outcomes == validate(Self, f, a, b, now)
            IN /\ outcomes # {}
               /\ \A r \in outcomes :
                     /\ r.d.reason \in Reasons
                     /\ r.d = DecisionOf(r.d.reason)

(* a state that a further call can follow, with an accepted message and    *)
(* an empty bucket, from which the calls return every reason code but the  *)
(* quarantine one (a quarantine next to these needs one more call)         *)
C19_Witness ==
    /\ calls < MaxCalls
    /\ \E p \in DOMAIN peers : ~peers[p].quarantined /\ peers[p].bucket.tokens < TokenUnit
    /\ {r.d.reason : r \in UNION {validate(Self, f, a, b, now) :
                                     f \in PeerIds, a \in Authors, b \in Msgs}}
          = Reasons \ {"forwarder_quarantined"}

(* a step of the loop that handles a gossipsub Message event *)
IsMessageEvent == node'.events = node.events + 1

Total(c) == c.accepted + c.rejected + c.ignored

(* C20: the step of the event loop that handles an inbound message event   *)
(* makes exactly one validate call and exactly one report, for that event  *)
(* and with that call's acceptance, and increments exactly the counter of  *)
(* that acceptance; no other step validates, reports or counts.  So after  *)
(* every step the reports are those of the events handled, one each and in *)
(* order, and the counters add up to their number.                         *)
C20_OneReport ==
    /\ [][/\ IsMessageEvent =>
               /\ calls' = calls + 1
               /\ node'.reports =
                     Append(node.reports,
                            [event |-> node'.events,
                             message_id |-> message_id_fn(last'.b),
                             propagation_source |-> last'.f,
                             acceptance |-> last'.d.acceptance])
               /\ node'.counters =
                     CASE last'.d.acceptance = "Accept" ->
                             [node.counters EXCEPT !.accepted = @ + 1]
                       [] last'.d.acceptance = "Reject" ->
                             [node.counters EXCEPT !.rejected = @ + 1]
                       [] last'.d.acceptance = "Ignore" ->
                             [node.counters EXCEPT !.ignored = @ + 1]
          /\ ~IsMessageEvent =>
               /\ calls' = calls
               /\ node'.reports = node.reports
               /\ node'.counters = node.counters]_vars
    /\ [](/\ Len(node.reports) = node.events
          /\ \A i \in DOMAIN node.reports : node.reports[i].event = i
          /\ calls = node.events
          /\ Total(node.counters) = node.events)

(* the loop has handled an accepted, a rejected and an ignored message and *)
(* a command in between, and has then been shut down                      *)
C20_Witness ==
    /\ ~node.running
    /\ node.summary.sent
    /\ node.counters.accepted > 0
    /\ node.counters.rejected > 0
    /\ node.counters.ignored > 0
    /\ node.cmds = MaxCmds
    /\ Len(node.reports) = 3

(* C21: when the loop has handled a message event whose validation         *)
(* penalised the blame target t, the application score the loop has set    *)
(* in gossipsub for t is the validator's score of t, for every penalising  *)
(* rule and also when author and forwarder differ.                         *)
C21_ScorePushed ==
    [][IsMessageEvent /\ Penalises(last'.d.reason) =>
          LET t == BlameTarget(last')
          IN /\ t \in DOMAIN node'.scores
             /\ node'.scores[t] = get_peer_score(Self', t)]_vars

(* a call whose author is present and is not the forwarder *)
Forwarded(c) == c.a # None /\ c.a # c.f

(* p's score, quarantine flag and offence count as the validator answers   *)
(* for them, before and after the step                                     *)
SameStanding(p) ==
    /\ get_peer_score(Self', p) = get_peer_score(Self, p)
    /\ is_quarantined(Self', p) = is_quarantined(Self, p)
SameOffences(p) == get_offence_count(Self', p) = get_offence_count(Self, p)

AuthorBlamed(reason) ==
    reason \in {"oversize", "decode_error", "empty_payload", "malicious_payload"}

(* C22 as stated: in a call whose author is present and different from     *)
(* the forwarder, the forwarder's score, offence count and quarantine flag *)
(* change only if the call returns rate_limited; oversize, decode_error,   *)
(* empty_payload and malicious_payload change only the author's.           *)
C22_Original ==
    [][IsCall /\ Forwarded(last') =>
          /\ last'.d.reason # "rate_limited" =>
                SameStanding(last'.f) /\ SameOffences(last'.f)
          /\ AuthorBlamed(last'.d.reason) =>
                \A p \in PeerIds \ {last'.a} : SameStanding(p) /\ SameOffences(p)]_vars

(* C22: in such a call the forwarder's offence count changes only if the   *)
(* call returns rate_limited, and so do its score and quarantine flag      *)
(* unless the call evicts the forwarder's registry entry; oversize,        *)
(* decode_error, empty_payload and malicious_payload change only the       *)
(* author's, apart from the entries the call evicts.                       *)
C22_ForwarderNotBlamed ==
    [][IsCall /\ Forwarded(last') =>
          /\ last'.d.reason # "rate_limited" =>
                /\ SameOffences(last'.f)
                /\ last'.f \notin Range(last'.evicted) => SameStanding(last'.f)
          /\ AuthorBlamed(last'.d.reason) =>
                \A p \in PeerIds \ {last'.a} :
                    /\ SameOffences(p)
                    /\ p \notin Range(last'.evicted) => SameStanding(p)]_vars

(* a forwarder with a score of its own has relayed a malicious message of  *)
(* another author and kept its registry entry: the author was penalised    *)
C22_Witness ==
    /\ Forwarded(last)
    /\ last.d.reason = "malicious_payload"
    /\ last.target = last.a
    /\ last.f \notin Range(last.evicted)
    /\ last.f \in DOMAIN peers
    /\ peers[last.f].score < 0
    /\ peers[last.a].score < 0

(* C23: a peer without a registry entry (never admitted, or evicted) has   *)
(* no offences on record, and when a call admits it and penalises it, the  *)
(* penalty is unscaled (the effective delta is the base delta) and does    *)
(* not quarantine it.                                                      *)
C23_FreshAfterEviction ==
    /\ [](\A p \in PeerIds : p \notin DOMAIN peers => get_offence_count(Self, p) = 0)
    /\ [][IsCall /\ Penalises(last'.d.reason) /\ BlameTarget(last') \notin DOMAIN peers =>
             /\ last'.eff = last'.d.score_delta * HalfPoints
             /\ ~peers'[BlameTarget(last')].quarantined]_vars

(* the peers that have a registry entry, and so a bucket, before and after *)
(* the step                                                                *)
Lasting == DOMAIN peers \cap DOMAIN peers'

(* C24: a call that ends at the quarantine gate or the size gate leaves    *)
(* every peer's bucket as it was; every other call takes exactly one token *)
(* from the forwarder's refilled bucket when it holds one, whatever the    *)
(* decision, and leaves the bucket of every other peer as it was.          *)
C24_TokenAccounting ==
    [][IsCall =>
          LET f == last'.f
              atGate == last'.d.reason \in {"forwarder_quarantined", "oversize"}
              before == IF f \in DOMAIN peers
                        THEN Refilled(peers[f].bucket, now')
                        ELSE TOKEN_BUCKET_CAPACITY * TokenUnit
          IN /\ atGate => \A p \in Lasting : peers'[p].bucket = peers[p].bucket
             /\ ~atGate =>
                   /\ \A p \in Lasting \ {f} : peers'[p].bucket = peers[p].bucket
                   /\ f \in DOMAIN peers' /\ before >= TokenUnit =>
                         peers'[f].bucket.tokens = before - TokenUnit]_vars

Unpenalised(c) == c.d.acceptance \in {"Ignore", "Accept"}

(* C25 as stated: a call that returns Ignore or Accept leaves the score,   *)
(* offence count, quarantine flag and application-score entry of every     *)
(* peer unchanged, in every reachable state including a full registry.     *)
C25_Original ==
    [][IsCall /\ Unpenalised(last') =>
          /\ offences' = offences
          /\ app_scores' = app_scores
          /\ \A p \in PeerIds : SameStanding(p)]_vars

(* C25: a call that returns Ignore or Accept leaves the offence count and  *)
(* the application-score entry of every peer unchanged, and the score and  *)
(* quarantine flag of every peer whose registry entry it does not evict.   *)
C25_NoPenaltyNoChange ==
    [][IsCall /\ Unpenalised(last') =>
          /\ offences' = offences
          /\ app_scores' = app_scores
          /\ \A p \in PeerIds \ Range(last'.evicted) : SameStanding(p)]_vars

(* a message was accepted in a full registry: one entry was evicted, and a *)
(* penalised peer has kept its entry and its score                         *)
C25_Witness ==
    /\ last.d.acceptance = "Accept"
    /\ last.evicted # <<>>
    /\ Cardinality(DOMAIN peers) = MAX_PEERS
    /\ \E p \in DOMAIN peers \ Range(last.evicted) :
          peers[p].score < 0 /\ p \in DOMAIN app_scores

(* C26: when the author's last_seq is unset, a Good message with a         *)
(* non-empty payload that is not a duplicate and passes the quarantine,    *)
(* size, rate and decode checks is accepted for every seq, 0 included, and *)
(* last_seq is then that seq.                                              *)
C26_FirstSeqAccepted ==
    [][/\ IsCall
       /\ ~RuleQuarantine(last') /\ ~RuleSize(last') /\ ~RuleRate(last')
       /\ ~RuleDecode(last') /\ ~RuleDedupe(last') /\ ~RuleEmpty(last')
       /\ decode(last'.b).variant = "Good"
       /\ get_peer_last_seq(Self, Target(last')) = None
       => /\ last'.d = Decision("Accept", "ok", 0)
          /\ get_peer_last_seq(Self', Target(last')) = decode(last'.b).seq]_vars

(* C27: ensure_peer_exists called for a peer that has a registry entry     *)
(* removes no entry and leaves the registry as it is, also when the        *)
(* registry is full; so a call whose forwarder and author are registered   *)
(* evicts nothing, and its penalty is added to the target's previous       *)
(* score.                                                                  *)
C27_EvictOnlyOnAdd ==
    /\ [](\A p \in DOMAIN peers :
             \A s \in ensure_peer_exists(Self, p, now) :
                 s.peers = peers /\ s.evicted = <<>>)
    /\ [][IsCall /\ last'.f \in DOMAIN peers /\ Target(last') \in DOMAIN peers =>
             /\ last'.evicted = <<>>
             /\ Penalises(last'.d.reason) =>
                   peers'[BlameTarget(last')].score
                      = peers[BlameTarget(last')].score + last'.eff]_vars

(* C28: under validate no peer's offence count decreases, and as long as   *)
(* a peer's registry entry is not evicted its score does not increase and  *)
(* its quarantined flag does not go from true to false.                    *)
C28_NoRecovery ==
    [][IsCall =>
          \A p \in PeerIds :
              /\ get_offence_count(Self', p) >= get_offence_count(Self, p)
              /\ Kept(last', p) =>
                    /\ peers'[p].score <= peers[p].score
                    /\ peers[p].quarantined => peers'[p].quarantined]_vars

(* a peer that was at or below the threshold has been penalised again in   *)
(* its kept entry, the flag recomputed from the score, and is quarantined  *)
C28_Witness ==
    /\ last.target \in DOMAIN peers
    /\ last.target \notin Range(last.evicted)
    /\ last.eff < 0
    /\ peers[last.target].score - last.eff <= QUARANTINE_THRESHOLD * HalfPoints
    /\ peers[last.target].quarantined
    /\ last.count > OFFENCE_HARD_CAP

(* C29: the score_delta of the Decision a call returns is the change the   *)
(* call made to the score of its blame target, when the call does not      *)
(* evict the target's entry.                                               *)
C29_DeltaIsChange ==
    [][IsCall /\ Penalises(last'.d.reason)
              /\ BlameTarget(last') \notin Range(last'.evicted) =>
          get_peer_score(Self', BlameTarget(last')) - get_peer_score(Self, BlameTarget(last'))
             = last'.d.score_delta * HalfPoints]_vars

(* C30 as stated: once an author is quarantined, every later validate call *)
(* whose author is that peer returns Reject or Ignore, also when the       *)
(* message is delivered by a different, non-quarantined forwarder.         *)
C30_Original ==
    [][IsCall /\ last'.a \in hist.q_ever =>
          last'.d.acceptance \in {"Reject", "Ignore"}]_vars

(* C30: while an author is quarantined, a call whose author is that peer   *)
(* returns (Ignore, forwarder_quarantined) when the peer itself is the     *)
(* forwarder; when the forwarder is a different, non-quarantined peer, the *)
(* call returns the decision of the first of the remaining rules whose     *)
(* condition holds, and (Accept, ok) when none does.                       *)
C30_ForwarderGateOnly ==
    [][IsCall /\ last'.a \in hist.q_live =>
          /\ last'.f = last'.a => IsIgnore(last', "forwarder_quarantined")
          /\ last'.f # last'.a /\ ~is_quarantined(Self, last'.f) =>
                /\ last'.d.reason # "forwarder_quarantined"
                /\ last'.d = DecisionOf(FirstRule(last'))]_vars

(* a message of an author that is quarantined, before the call and after,  *)
(* was delivered by another forwarder and accepted                         *)
C30_Witness ==
    /\ last.d = Decision("Accept", "ok", 0)
    /\ Forwarded(last)
    /\ last.a \in hist.q_live
    /\ last.a \notin Range(last.evicted)
    /\ is_quarantined(Self, last.a)
    /\ ~is_quarantined(Self, last.f)
    /\ get_peer_last_seq(Self, last.a) = decode(last.b).seq

(* C31: in every reachable state that a further call can follow, validate  *)
(* for forwarder F and bytes b with no author and with author F have the   *)
(* same outcomes: the same decision and the same resulting validator       *)
(* (registry with scores, last_seq and buckets, offences, dedupe cache,    *)
(* application scores), blame target, offence number and evictions.        *)
C31_AbsentAuthorIsForwarder ==
    calls < MaxCalls =>
        \A f \in PeerIds : \A b \in Msgs :
            validate(Self, f, None, b, now) = validate(Self, f, f, b, now)

(* a forwarder with an accepted seq and an offence of its own on record,   *)
(* from where its calls without author are, like those with itself as      *)
(* author, replays by its own last_seq and penalties of its own, escalated *)
C31_Witness ==
    /\ calls < MaxCalls
    /\ \E f \in DOMAIN peers :
          /\ peers[f].last_seq # None
          /\ get_offence_count(Self, f) > 0
          /\ \E b \in Msgs : \E r \in validate(Self, f, None, b, now) :
                r.d.reason = "replay_or_old_seq" /\ decode(b).seq > 0
          /\ \E b \in Msgs : \E r \in validate(Self, f, None, b, now) :
                r.target = f /\ r.count > 1
====
